---- MODULE Spec2Model ----
(***************************************************************************)
(* The benchmark harnesses run.py (C against Rust, wall-clock) and         *)
(* runOptDiff.py (clang -O2 / -O3 / LLVM pipeline, perf stat) as one state *)
(* machine.  One behaviour is a sequence of process runs of one harness    *)
(* over one benchmark tree and one ledger file.  External processes        *)
(* (compilers, benchmark binaries, perf) are the environment: each call    *)
(* draws the outcome of the process from a small set.                      *)
(*                                                                         *)
(* Elapsed times are counted in ticks of 1/TicksPerSecond seconds.  Every  *)
(* such time is an exact binary fraction, and for the tick counts used     *)
(* here no quotient of two of them lies on a rounding boundary that a      *)
(* double cannot hold exactly, so RoundHalfEven gives what Python's        *)
(* ".3f" / ".2f" formatting of the double gives.                           *)
(***************************************************************************)
EXTENDS Integers, Sequences, FiniteSets, TLC

VARIABLES
  harness,      \* "run" (run.py) or "optdiff" (runOptDiff.py)
  inputExists,  \* the file named by --input-data exists
  input_data,   \* the text of that file
  rust,         \* per reference source: which Rust counterpart exists
  script,       \* per reference source: the outcomes of its processes, or free
  cfiles,       \* the <dir>/C/<name>.c files on disk, as <<dir, name>>
  content,      \* the text of each such file
  ledger,       \* the results file: [exists, lines]
  run,          \* number of process runs started
  benchmark,    \* args.benchmark, "" when not given (all mode)
  dirs,         \* benchmark_dirs, shuffled
  di,           \* index of d in dirs
  c_files,      \* the shuffled glob of the current directory
  fi,           \* index of c_file in c_files
  total_benchmarks,
  pc,           \* position of the process
  unit,         \* <<d, base_name>> of the current run_benchmark call
  step,         \* position in the call's compile/measure sequence
  tried,        \* compile commands launched in the current call
  built,        \* variants compiled successfully in the current call
  meas,         \* measurements returned in the current call, in order
  c_source,     \* the rewritten source text of the current call
  status,       \* how the last run_benchmark call ended
  raisedIn,     \* function an uncaught exception came out of
  calls,        \* run_benchmark calls made in this run
  ledgerAtCall, \* ledger when the current call started
  ledgerAtRun,  \* ledger when the current run started
  notFound,     \* "Benchmark ... not found" was logged in this run
  summary       \* the count logged by "Total benchmarks", None before

vars == <<harness, inputExists, input_data, rust, script, cfiles, content,
          ledger, run, benchmark, dirs, di, c_files, fi, total_benchmarks,
          pc, unit, step, tried, built, meas, c_source, status, raisedIn,
          calls, ledgerAtCall, ledgerAtRun, notFound, summary>>

\* ---------------------------------------------------------------- bounds
MaxRuns == 2     \* process runs in one behaviour
MaxTime == 3     \* longest time a fixed script measures, in ticks
MaxElapsed == 1  \* longest time a free process takes, in ticks

None == -1
TicksPerSecond == 2^11

\* ------------------------------------------------------------ file system
Alg == "Benchmarks/Algorithm_Benchmarks"
Perf == "Benchmarks/Performance_Benchmarks"
BenchmarkDirs == <<Alg, Perf>>

\* The reference sources of the tree, and a name that is in no category.
CFiles0 == {<<Alg, "a">>, <<Perf, "a">>, <<Perf, "algorithm">>}
MissingName == "zz"

\* A file that holds nothing (or the text of no file).
NoFile == <<>>

\* A line of C source: its text and the number written in it, if any.
Stmt(text, n) == [text |-> text, n |-> n]

\* The statement "int n = <size>;"; the sources are written with size 97.
SizeDecl(size) == Stmt("int n = ;", size)
DefaultSize == 97

\* The texts of the reference sources: one with the statement
\* "int n = 97;", one without it, one that holds it twice.
Source0(u) ==
  IF u = <<Alg, "a">>
  THEN <<Stmt("#include <stdio.h>", None), SizeDecl(DefaultSize),
         Stmt("int main() { ... }", None)>>
  ELSE IF u = <<Perf, "a">>
  THEN <<SizeDecl(1000), Stmt("int main() { ... }", None)>>
  ELSE <<SizeDecl(DefaultSize), Stmt("int main() { ... }", None),
         SizeDecl(DefaultSize)>>

\* The texts the input file can hold, as runs of white space and tokens:
\* an empty file, and three numbers on two lines.
InputFiles == {NoFile, <<"5", " ", "3", "\n", "8", "\n">>}

\* input_data.strip().split(): the tokens between the white space.
Split(text) == SelectSeq(text, LAMBDA w : w \notin {" ", "\n", "\t"})

\* Bug: only the first "int n = 97;" is replaced (str.replace(..., 1)).
SubstituteFirst(source, size) ==
  [i \in 1..Len(source) |->
     IF /\ source[i] = SizeDecl(DefaultSize)
        /\ \A j \in 1..(i - 1) : source[j] # SizeDecl(DefaultSize)
     THEN SizeDecl(size) ELSE source[i]]

\* c_source.replace("int n = 97;", f"int n = {size};"): every occurrence.
Substitute(source, size) ==
  [i \in 1..Len(source) |->
     IF source[i] = SizeDecl(DefaultSize) THEN SizeDecl(size) ELSE source[i]]

TempName(name) == name \o "_temp"

RECURSIVE TempClosure(_, _)
TempClosure(S, k) ==
  IF k = 0 THEN S
  ELSE TempClosure(S \cup {<<u[1], TempName(u[2])>> : u \in S}, k - 1)

\* Every reference source that can be on disk within MaxRuns runs.
Units == TempClosure(CFiles0, MaxRuns)

Range(s) == {s[i] : i \in 1..Len(s)}
Last(s) == s[Len(s)]
Perms(S) == {s \in [1..Cardinality(S) -> S] : Range(s) = S}

\* get_benchmark_dirs: the two categories in a random order.
get_benchmark_dirs == Perms(Range(BenchmarkDirs))

\* glob.glob(f"{d}/C/*.c") followed by random.shuffle.
Glob(d) == Perms({u \in cfiles : u[1] = d})

\* ------------------------------------------------------------- the ledger
\* A line of the results file is its comma-separated fields: the text
\* fields (a name, or the header's column names) and then the numeric
\* fields, each kept as the number its decimal text denotes (a ".3f" field
\* in thousandths, a ".2f" field in hundredths, a cycle count as it is).
Line(text, num) == [text |-> text, num |-> num]

\* line.startswith(base_name + ","): the name is the line's first field and
\* a field separator follows it.
StartsWithName(line, base_name) ==
  /\ Len(line.text) >= 1
  /\ line.text[1] = base_name
  /\ Len(line.text) + Len(line.num) >= 2

\* Bug: only the last line of the file is compared.
AlreadyEvaluatedLastLine(file, base_name) ==
  /\ file.exists
  /\ Len(file.lines) >= 1
  /\ StartsWithName(Last(file.lines), base_name)

\* Bug: a line is compared with the name as a whole (line == base_name).
AlreadyEvaluatedWholeLine(file, base_name) ==
  /\ file.exists
  /\ \E i \in 1..Len(file.lines) :
       file.lines[i] = [text |-> <<base_name>>, num |-> <<>>]

\* The pre-check of run_benchmark: the file exists and some line of it
\* starts with "<base_name>,".
AlreadyEvaluated(file, base_name) ==
  /\ file.exists
  /\ \E i \in 1..Len(file.lines) : StartsWithName(file.lines[i], base_name)

HeaderRun == Line(<<"algorithm", "c_time", "rust_time", "speedup">>, <<>>)
HeaderOptDiff ==
  Line(<<"algorithm", "clang_o2_time", "clang_o2_cycles", "clang_o3_time",
         "clang_o3_cycles", "llvm_pipeline_time", "llvm_pipeline_cycles">>,
       <<>>)

\* n/d rounded to the nearest integer, ties to even (d > 0, n >= 0).
RoundHalfEven(n, d) ==
  LET q == n \div d
      r == n % d
  IN  IF 2 * r < d THEN q
      ELSE IF 2 * r > d THEN q + 1
      ELSE IF q % 2 = 0 THEN q ELSE q + 1

\* f"{t:.3f}" of a time of t ticks, in thousandths of a second.
Fmt3(t) == RoundHalfEven(t * 1000, TicksPerSecond)

\* Bug: the ratio is cut after two decimals instead of rounded.
Fmt2RatioTruncated(c_time, rust_time) == (c_time * 100) \div rust_time

\* f"{c_time/rust_time:.2f}", in hundredths.
Fmt2Ratio(c_time, rust_time) == RoundHalfEven(c_time * 100, rust_time)

\* The outcome of a function call: a return value or an exception.
Ret(v) == [raised |-> FALSE, val |-> v]
Raised == [raised |-> TRUE, val |-> None]

\* Bug: the file is opened with "w" whether or not it exists, so what it
\* held is lost.
write_results_truncating(file, base_name, c_time, rust_time) ==
  IF rust_time = 0 THEN Raised
  ELSE
    LET row == Line(<<base_name>>,
                    <<Fmt3(c_time), Fmt3(rust_time),
                      Fmt2Ratio(c_time, rust_time)>>)
    IN  Ret([exists |-> TRUE, lines |-> <<HeaderRun, row>>])

\* run.py write_results: the log lines divide c_time by rust_time before
\* anything is written; then the header if the file is missing, then the row.
write_results(file, base_name, c_time, rust_time) ==
  IF rust_time = 0 THEN Raised
  ELSE
    LET created == IF file.exists THEN file.lines ELSE <<HeaderRun>>
        row == Line(<<base_name>>,
                    <<Fmt3(c_time), Fmt3(rust_time),
                      Fmt2Ratio(c_time, rust_time)>>)
    IN  Ret([exists |-> TRUE, lines |-> Append(created, row)])

\* Bug: the header is written before every row, not only into a new file.
write_results_header_always(file, base_name, m) ==
  LET row == Line(<<base_name>>,
                  <<Fmt3(m[1].time), m[1].cycles, Fmt3(m[2].time),
                    m[2].cycles, Fmt3(m[3].time), m[3].cycles>>)
  IN  Ret([exists |-> TRUE,
           lines |-> Append(Append(file.lines, HeaderOptDiff), row)])

\* runOptDiff.py write_results: m is the three measurements O2, O3, LLVM.
write_results_optdiff(file, base_name, m) ==
  LET created == IF file.exists THEN file.lines ELSE <<HeaderOptDiff>>
      row == Line(<<base_name>>,
                  <<Fmt3(m[1].time), m[1].cycles, Fmt3(m[2].time),
                    m[2].cycles, Fmt3(m[3].time), m[3].cycles>>)
  IN  Ret([exists |-> TRUE, lines |-> Append(created, row)])

\* ------------------------------------------------------ external processes
\* How a subprocess.run(..., check=True) ends: exit status 0, a non-zero
\* exit status (CalledProcessError), or the launch fails (an OSError such
\* as FileNotFoundError or PermissionError).
ProcKinds == {"exit0", "nonzero", "oserror"}

\* The text perf stat prints on stderr, as far as the two patterns read it:
\* the time before " seconds time elapsed" (None if the phrase is absent)
\* and the digit groups of the number before "cycles" (none if absent).
PerfText(time, groups) == [time |-> time, groups |-> groups]
NoText == PerfText(None, <<>>)
PerfTexts ==
  {PerfText(None, <<7>>), PerfText(1, <<>>), PerfText(2, <<1, 234, 567>>)}

\* What the environment does in one call of a compile or measure function:
\* the ends of the processes it ran (a later process runs only if the
\* earlier ones exited 0), the wall-clock time that elapsed, perf's stderr.
Outcome(procs, time, stderr) ==
  [procs |-> procs, time |-> time, stderr |-> stderr]

\* The ends of up to n processes run one after the other.
ProcSeqs(n) ==
  {p \in UNION {[1..k -> ProcKinds] : k \in 1..n} :
     /\ \A i \in 1..(Len(p) - 1) : p[i] = "exit0"
     /\ Len(p) < n => Last(p) # "exit0"}

\* subprocess.run(..., check=True) inside
\* "try: ...; return True / except CalledProcessError: return False".
CompileResult(o) ==
  IF Last(o.procs) = "exit0" THEN Ret(TRUE)
  ELSE IF Last(o.procs) = "nonzero" THEN Ret(FALSE)
  ELSE Raised

compile_c_source(o) == CompileResult(o)
compile_rust(o) == CompileResult(o)
compile_with_clang(o) == CompileResult(o)
compile_with_llvm_opt(o) == CompileResult(o)

\* A measurement: the time, and the cycle count in the perf harness.
Measurement(time, cycles) == [time |-> time, cycles |-> cycles]
Failure == Measurement(None, None)

\* run_c_benchmark / run_rust_benchmark: the elapsed time, or None from the
\* bare "except:" whatever went wrong.
WallClock(o) ==
  IF Last(o.procs) = "exit0" THEN Ret(Measurement(o.time, None))
  ELSE Ret(Failure)

run_c_benchmark(o) == WallClock(o)
run_rust_benchmark(o) == WallClock(o)

\* re.search(r'(\d+,\d+|\d+)\s+cycles', ...): the leftmost match is the
\* last one or two digit groups before the whitespace; int() of it with the
\* comma removed.
CyclesMatch(groups) ==
  IF Len(groups) = 0 THEN None
  ELSE IF Len(groups) = 1 THEN groups[1]
  ELSE groups[Len(groups) - 1] * 1000 + groups[Len(groups)]

\* run_benchmark_with_perf: only CalledProcessError is caught.
run_benchmark_with_perf(o) ==
  IF Last(o.procs) = "exit0"
  THEN IF o.stderr.time # None /\ CyclesMatch(o.stderr.groups) # None
       THEN Ret(Measurement(o.stderr.time, CyclesMatch(o.stderr.groups)))
       ELSE Ret(Failure)
  ELSE IF Last(o.procs) = "nonzero" THEN Ret(Failure)
  ELSE Raised

\* ------------------------------------------------------ run_benchmark's steps
Step(op, v) == [op |-> op, v |-> v]

\* Bug: run.py measures the C program before it compiles the Rust one.
PlanMeasureEarly(h) ==
  IF h = "run"
  THEN <<Step("compile", "C"), Step("measure", "C"),
         Step("compile", "Rust"), Step("measure", "Rust")>>
  ELSE <<Step("compile", "O2"), Step("measure", "O2"),
         Step("compile", "O3"), Step("measure", "O3"),
         Step("compile", "LLVM"), Step("measure", "LLVM")>>

\* The compile and measure calls of run_benchmark, in program order.
Plan(h) ==
  IF h = "run"
  THEN <<Step("compile", "C"), Step("compile", "Rust"),
         Step("measure", "C"), Step("measure", "Rust")>>
  ELSE <<Step("compile", "O2"), Step("measure", "O2"),
         Step("compile", "O3"), Step("measure", "O3"),
         Step("compile", "LLVM"), Step("measure", "LLVM")>>

\* The function a step calls.
Callee(st) ==
  IF st.op = "compile"
  THEN CASE st.v = "C" -> "compile_c_source"
         [] st.v = "Rust" -> "compile_rust"
         [] st.v = "LLVM" -> "compile_with_llvm_opt"
         [] OTHER -> "compile_with_clang"
  ELSE CASE st.v = "C" -> "run_c_benchmark"
         [] st.v = "Rust" -> "run_rust_benchmark"
         [] OTHER -> "run_benchmark_with_perf"

\* The result of a step's call under outcome o.
Call(st, o) ==
  CASE Callee(st) = "compile_c_source" -> compile_c_source(o)
    [] Callee(st) = "compile_rust" -> compile_rust(o)
    [] Callee(st) = "compile_with_clang" -> compile_with_clang(o)
    [] Callee(st) = "compile_with_llvm_opt" -> compile_with_llvm_opt(o)
    [] Callee(st) = "run_c_benchmark" -> run_c_benchmark(o)
    [] Callee(st) = "run_rust_benchmark" -> run_rust_benchmark(o)
    [] OTHER -> run_benchmark_with_perf(o)

\* The command a compile step launches first: compile_rust runs rustc when
\* <dir>/Rust/<name>.rs exists and cargo in the project directory otherwise.
Command(st, rustKind) ==
  CASE st.v = "C" -> "gcc"
    [] st.v = "Rust" -> IF rustKind \in {"file", "both"} THEN "rustc" ELSE "cargo"
    [] OTHER -> "clang-18"

\* Everything the environment can do in a step.
Outcomes(st) ==
  IF st.op = "compile"
  THEN {Outcome(p, None, NoText) :
          p \in ProcSeqs(IF st.v = "LLVM" THEN 3 ELSE 1)}
  ELSE IF st.v \in {"C", "Rust"}
  THEN {Outcome(<<"exit0">>, t, NoText) : t \in 0..MaxElapsed}
         \cup {Outcome(<<k>>, None, NoText) : k \in {"nonzero", "oserror"}}
  ELSE {Outcome(<<"exit0">>, None, s) : s \in PerfTexts}
         \cup {Outcome(<<k>>, None, NoText) : k \in {"nonzero", "oserror"}}

\* A reference source's processes either end as the script fixes, step by
\* step, or are free to end in any way.
Free == [free |-> TRUE, outs |-> <<>>]
Fixed(outs) == [free |-> FALSE, outs |-> outs]

OutcomeChoices(u, k) ==
  IF script[u].free THEN Outcomes(Plan(harness)[k]) ELSE {script[u].outs[k]}

\* The outcome of a step in which every process exits 0; a measurement then
\* takes one tick, and perf prints both of its lines.
GoodOutcome(st) ==
  IF st.op = "compile"
  THEN Outcome([i \in 1..(IF st.v = "LLVM" THEN 3 ELSE 1) |-> "exit0"],
               None, NoText)
  ELSE IF st.v \in {"C", "Rust"} THEN Outcome(<<"exit0">>, 1, NoText)
  ELSE Outcome(<<"exit0">>, None, PerfText(2, <<1, 234, 567>>))

\* The script that is good everywhere but at step k, where o happens.
ScriptWith(h, k, o) ==
  Fixed([i \in 1..Len(Plan(h)) |->
           IF i = k THEN o ELSE GoodOutcome(Plan(h)[i])])

\* run.py, fixed fates of a reference source: everything succeeds; rustc
\* exits non-zero; rustc cannot be launched; the Rust binary exits non-zero.
\* (runOptDiff.py keeps its processes free.)
FixedScripts(h) ==
  IF h = "run"
  THEN {ScriptWith(h, 0, NoText),
        ScriptWith(h, 2, Outcome(<<"nonzero">>, None, NoText)),
        ScriptWith(h, 2, Outcome(<<"oserror">>, None, NoText)),
        ScriptWith(h, 4, Outcome(<<"nonzero">>, None, NoText))}
  ELSE {Free}

\* run.py: everything succeeds and the two measured times are fixed, each
\* any time up to MaxTime.  (runOptDiff.py keeps its processes free.)
TimeScripts(h) ==
  IF h = "run"
  THEN {Fixed(<<GoodOutcome(Step("compile", "C")),
                GoodOutcome(Step("compile", "Rust")),
                Outcome(<<"exit0">>, c, NoText),
                Outcome(<<"exit0">>, r, NoText)>>) :
          c \in 0..MaxTime, r \in 0..MaxTime}
  ELSE {Free}

\* ------------------------------------------------------------------ state
RustKinds == {"none", "file", "dir"}

\* args.benchmark: empty when --benchmark is not given.
ArgChoices == {""} \cup {u[2] : u \in CFiles0} \cup {MissingName}

NoUnit == <<"", "">>

envVars == <<harness, inputExists, input_data, rust, script>>
diskVars == <<cfiles, content>>
stepVars == <<step, tried, built, meas, c_source>>
runVars == <<run, benchmark, dirs, ledgerAtRun>>
callVars == <<unit, calls, ledgerAtCall>>

\* The source a reference source is (a temporary copy of), among CFiles0.
RootOf(u) == CHOOSE r \in CFiles0 : u \in TempClosure({r}, MaxRuns)

\* The harness, the tree and the input file; nothing has run yet.  Only
\* run.py looks for Rust counterparts; a temporary copy of a source runs as
\* the source does.
InitWith(scripts, kinds, uniform) ==
  /\ harness \in {"run", "optdiff"}
  /\ inputExists \in BOOLEAN
  /\ input_data \in (IF inputExists THEN InputFiles ELSE {NoFile})
  /\ \E k \in [CFiles0 -> kinds] :
       rust = [u \in Units |->
                 IF harness = "run" /\ u \in CFiles0 THEN k[u] ELSE "none"]
  /\ \E f \in [CFiles0 -> scripts] :
       /\ uniform => \A u, v \in CFiles0 : f[u] = f[v]
       /\ script = [u \in Units |-> f[RootOf(u)]]
  /\ cfiles = CFiles0
  /\ content = [u \in Units |-> IF u \in CFiles0 THEN Source0(u) ELSE NoFile]
  /\ ledger = [exists |-> FALSE, lines |-> <<>>]
  /\ run = 0
  /\ benchmark = ""
  /\ dirs = BenchmarkDirs
  /\ di = 1
  /\ c_files = <<>>
  /\ fi = 1
  /\ total_benchmarks = 0
  /\ pc = "idle"
  /\ unit = NoUnit
  /\ step = 0
  /\ tried = <<>>
  /\ built = <<>>
  /\ meas = <<>>
  /\ c_source = NoFile
  /\ status = ""
  /\ raisedIn = ""
  /\ calls = 0
  /\ ledgerAtCall = ledger
  /\ ledgerAtRun = ledger
  /\ notFound = FALSE
  /\ summary = None

Init == InitWith({Free}, RustKinds, TRUE)

\* ------------------------------------------------------------------- main
\* main() up to the loops: the arguments, the shuffled categories, the
\* counter.  A new process starts after the previous one has ended.
StartRun ==
  /\ pc \in {"idle", "done", "aborted"}
  /\ run < MaxRuns
  /\ run' = run + 1
  /\ benchmark' \in ArgChoices
  /\ dirs' \in get_benchmark_dirs
  /\ total_benchmarks' = 0
  /\ pc' = IF benchmark' # "" THEN "named" ELSE "glob"
  /\ di' = 1
  /\ c_files' = <<>>
  /\ fi' = 1
  /\ unit' = NoUnit
  /\ step' = 0
  /\ tried' = <<>>
  /\ built' = <<>>
  /\ meas' = <<>>
  /\ c_source' = NoFile
  /\ status' = ""
  /\ raisedIn' = ""
  /\ calls' = 0
  /\ ledgerAtCall' = ledger
  /\ ledgerAtRun' = ledger
  /\ notFound' = FALSE
  /\ summary' = None
  /\ UNCHANGED <<envVars, diskVars, ledger>>

\* run_benchmark is entered for reference source u.
BeginCall(u) ==
  /\ unit' = u
  /\ calls' = calls + 1
  /\ ledgerAtCall' = ledger
  /\ step' = 0
  /\ tried' = <<>>
  /\ built' = <<>>
  /\ meas' = <<>>
  /\ c_source' = NoFile
  /\ status' = ""
  /\ pc' = "check"
  /\ UNCHANGED <<envVars, runVars, diskVars, ledger, total_benchmarks,
                 raisedIn, notFound, summary>>

\* The directories of the shuffled list that hold <benchmark>.c.
Holding == {i \in 1..Len(dirs) : <<dirs[i], benchmark>> \in cfiles}

\* Bug: the last category that holds the source is run, not the first.
NamedFoundLast ==
  /\ pc = "named"
  /\ Holding # {}
  /\ LET i == CHOOSE j \in Holding : \A k \in Holding : j >= k
     IN  BeginCall(<<dirs[i], benchmark>>)
  /\ UNCHANGED <<di, c_files, fi>>

\* Named mode: the first category that holds the source is run, then break.
NamedFound ==
  /\ pc = "named"
  /\ Holding # {}
  /\ LET i == CHOOSE j \in Holding : \A k \in Holding : j <= k
     IN  BeginCall(<<dirs[i], benchmark>>)
  /\ UNCHANGED <<di, c_files, fi>>

\* Bug: the miss is counted as a benchmark.
NamedNotFoundCounted ==
  /\ pc = "named"
  /\ Holding = {}
  /\ notFound' = TRUE
  /\ total_benchmarks' = total_benchmarks + 1
  /\ pc' = "summary"
  /\ UNCHANGED <<envVars, runVars, callVars, diskVars, ledger, di, c_files, fi,
                 stepVars, status, raisedIn, summary>>

\* Named mode, for/else: no category holds the source.
NamedNotFound ==
  /\ pc = "named"
  /\ Holding = {}
  /\ notFound' = TRUE
  /\ pc' = "summary"
  /\ UNCHANGED <<envVars, runVars, callVars, diskVars, ledger, di, c_files, fi,
                 total_benchmarks, stepVars, status, raisedIn,
                 summary>>

\* All mode: glob and shuffle the sources of the next category.
GlobDir ==
  /\ pc = "glob"
  /\ di <= Len(dirs)
  /\ c_files' \in Glob(dirs[di])
  /\ fi' = 1
  /\ pc' = "iter"
  /\ UNCHANGED <<envVars, runVars, callVars, diskVars, ledger, di,
                 total_benchmarks, stepVars, status, raisedIn,
                 notFound, summary>>

\* All mode: the categories are exhausted.
AllDone ==
  /\ pc = "glob"
  /\ di > Len(dirs)
  /\ pc' = "summary"
  /\ UNCHANGED <<envVars, runVars, callVars, diskVars, ledger, di, c_files, fi,
                 total_benchmarks, stepVars, status, raisedIn,
                 notFound, summary>>

\* All mode: the next source of the category is run (runOptDiff.py only if
\* the file still exists).
IterCall ==
  /\ pc = "iter"
  /\ fi <= Len(c_files)
  /\ harness = "optdiff" => c_files[fi] \in cfiles
  /\ BeginCall(c_files[fi])
  /\ UNCHANGED <<di, c_files, fi>>

\* runOptDiff.py, all mode: a globbed file that is gone is passed over.
IterGone ==
  /\ pc = "iter"
  /\ fi <= Len(c_files)
  /\ harness = "optdiff"
  /\ c_files[fi] \notin cfiles
  /\ fi' = fi + 1
  /\ UNCHANGED <<envVars, runVars, callVars, diskVars, ledger, di, c_files,
                 total_benchmarks, pc, stepVars, status,
                 raisedIn, notFound, summary>>

\* All mode: the category's sources are exhausted.
IterNextDir ==
  /\ pc = "iter"
  /\ fi > Len(c_files)
  /\ di' = di + 1
  /\ pc' = "glob"
  /\ UNCHANGED <<envVars, runVars, callVars, diskVars, ledger, c_files, fi,
                 total_benchmarks, stepVars, status, raisedIn,
                 notFound, summary>>

\* log.info(f"Total benchmarks: {total_benchmarks}") and the process ends.
Summary ==
  /\ pc = "summary"
  /\ summary' = total_benchmarks
  /\ pc' = "done"
  /\ UNCHANGED <<envVars, runVars, callVars, diskVars, ledger, di, c_files, fi,
                 total_benchmarks, stepVars, status, raisedIn,
                 notFound>>

\* ---------------------------------------------------------- run_benchmark
Named == benchmark # ""
base_name == unit[2]
temp_c_file == <<unit[1], TempName(unit[2])>>

\* run_benchmark returns to main: the counter is bumped; named mode breaks
\* out of its loop, all mode goes on to the next source.
Return(st) ==
  /\ status' = st
  /\ total_benchmarks' = total_benchmarks + 1
  /\ pc' = IF Named THEN "summary" ELSE "iter"
  /\ fi' = IF Named THEN fi ELSE fi + 1
  /\ UNCHANGED <<envVars, runVars, callVars, di, c_files, raisedIn, notFound,
                 summary>>

\* An exception leaves run_benchmark and main: the process dies.
Raise(fn) ==
  /\ status' = "Raised"
  /\ raisedIn' = fn
  /\ pc' = "aborted"
  /\ UNCHANGED <<envVars, runVars, callVars, di, c_files, fi,
                 total_benchmarks, notFound, summary>>

\* os.remove(temp_c_file), in runOptDiff.py only.
RemoveTemp ==
  /\ cfiles' = IF harness = "optdiff" THEN cfiles \ {temp_c_file} ELSE cfiles
  /\ content' = IF harness = "optdiff"
                THEN [content EXCEPT ![temp_c_file] = NoFile] ELSE content

\* The "already evaluated" pre-check.
CheckLedger ==
  /\ pc = "check"
  /\ IF AlreadyEvaluated(ledger, base_name)
     THEN Return("Skipped_duplicate")
     ELSE /\ pc' = IF harness = "run" THEN "resolve" ELSE "prepare"
          /\ UNCHANGED <<envVars, runVars, callVars, di, c_files, fi,
                         total_benchmarks, status, raisedIn, notFound, summary>>
  /\ UNCHANGED <<diskVars, ledger, stepVars>>

\* Bug: the missing counterpart is logged but the function goes on.
ResolveComparisonsNoReturn ==
  /\ pc = "resolve"
  /\ pc' = "prepare"
  /\ UNCHANGED <<envVars, runVars, callVars, di, c_files, fi,
                 total_benchmarks, status, raisedIn, notFound, summary>>
  /\ UNCHANGED <<diskVars, ledger, stepVars>>

\* run.py: neither <dir>/Rust/<name>.rs nor <dir>/Rust/<name> exists.
ResolveComparisons ==
  /\ pc = "resolve"
  /\ IF rust[unit] = "none"
     THEN Return("Skipped_no_counterpart")
     ELSE /\ pc' = "prepare"
          /\ UNCHANGED <<envVars, runVars, callVars, di, c_files, fi,
                         total_benchmarks, status, raisedIn, notFound, summary>>
  /\ UNCHANGED <<diskVars, ledger, stepVars>>

\* Bug: the rewritten text is written over the reference source itself.
PrepareInPlace ==
  /\ pc = "prepare"
  /\ IF ~inputExists
     THEN Raise("read_text") /\ UNCHANGED <<diskVars, step, c_source>>
     ELSE /\ c_source' = Substitute(content[unit], Len(Split(input_data)))
          /\ content' = [content EXCEPT ![unit] = c_source']
          /\ step' = 1
          /\ pc' = "pipeline"
          /\ UNCHANGED <<envVars, runVars, callVars, di, c_files, fi, cfiles,
                         total_benchmarks, status, raisedIn, notFound, summary>>
  /\ UNCHANGED <<ledger, tried, built, meas>>

\* The input is read and counted and the source rewritten; runOptDiff.py
\* writes the rewritten source to <name>_temp.c.  read_text raises when the
\* input file is missing.
Prepare ==
  /\ pc = "prepare"
  /\ IF ~inputExists
     THEN Raise("read_text") /\ UNCHANGED <<diskVars, step, c_source>>
     ELSE /\ c_source' = Substitute(content[unit], Len(Split(input_data)))
          /\ cfiles' = IF harness = "optdiff"
                       THEN cfiles \cup {temp_c_file} ELSE cfiles
          /\ content' = IF harness = "optdiff"
                        THEN [content EXCEPT ![temp_c_file] = c_source']
                        ELSE content
          /\ step' = 1
          /\ pc' = "pipeline"
          /\ UNCHANGED <<envVars, runVars, callVars, di, c_files, fi,
                         total_benchmarks, status, raisedIn, notFound, summary>>
  /\ UNCHANGED <<ledger, tried, built, meas>>

\* The call's next step follows, or the results are written.
Advance ==
  /\ step' = step + 1
  /\ pc' = IF step = Len(Plan(harness)) THEN "record" ELSE "pipeline"
  /\ UNCHANGED <<envVars, runVars, callVars, di, c_files, fi,
                 total_benchmarks, status, raisedIn, notFound, summary>>

\* Bug: the result of the compile call is not looked at.
CompileIgnoresFailure ==
  /\ pc = "pipeline"
  /\ Plan(harness)[step].op = "compile"
  /\ \E o \in OutcomeChoices(unit, step) :
       LET st == Plan(harness)[step]
           r == Call(st, o)
       IN  /\ tried' = Append(tried, Command(st, rust[unit]))
           /\ IF r.raised
              THEN Raise(Callee(st)) /\ UNCHANGED <<diskVars, step, built>>
              ELSE Advance
                   /\ built' = (IF r.val THEN Append(built, st.v) ELSE built)
                   /\ UNCHANGED diskVars
  /\ UNCHANGED <<ledger, meas, c_source>>

\* A compile call: on False the unit is abandoned.
Compile ==
  /\ pc = "pipeline"
  /\ Plan(harness)[step].op = "compile"
  /\ \E o \in OutcomeChoices(unit, step) :
       LET st == Plan(harness)[step]
           r == Call(st, o)
       IN  /\ tried' = Append(tried, Command(st, rust[unit]))
           /\ IF r.raised
              THEN Raise(Callee(st)) /\ UNCHANGED <<diskVars, step, built>>
              ELSE IF ~r.val
              THEN Return("Failed_compile") /\ RemoveTemp
                   /\ UNCHANGED <<step, built>>
              ELSE Advance /\ built' = Append(built, st.v)
                   /\ UNCHANGED diskVars
  /\ UNCHANGED <<ledger, meas, c_source>>

\* A measure call: on None the unit is abandoned.
Measure ==
  /\ pc = "pipeline"
  /\ Plan(harness)[step].op = "measure"
  /\ \E o \in OutcomeChoices(unit, step) :
       LET st == Plan(harness)[step]
           r == Call(st, o)
       IN  IF r.raised
           THEN Raise(Callee(st)) /\ UNCHANGED <<diskVars, step, meas>>
           ELSE IF r.val.time = None
           THEN Return("Failed_measure") /\ RemoveTemp
                /\ UNCHANGED <<step, meas>>
           ELSE Advance
                /\ meas' = Append(meas, [v |-> st.v, time |-> r.val.time,
                                         cycles |-> r.val.cycles,
                                         stderr |-> o.stderr])
                /\ UNCHANGED diskVars
  /\ UNCHANGED <<ledger, tried, built, c_source>>

\* write_results; runOptDiff.py removes the temporary source first.
Record ==
  /\ pc = "record"
  /\ LET r == IF harness = "run"
              THEN write_results(ledger, base_name, meas[1].time, meas[2].time)
              ELSE write_results_optdiff(ledger, base_name, meas)
     IN  IF r.raised
         THEN Raise("write_results") /\ UNCHANGED ledger
         ELSE Return("Recorded") /\ ledger' = r.val
  /\ RemoveTemp
  /\ UNCHANGED stepVars

\* ------------------------------------------- run_benchmark as a function
\* What a run_benchmark call for source u makes of ledger file when the
\* outcomes of u's processes are fixed by its script: the steps from the
\* k-th on, with the measurements m made so far.
RECURSIVE PipelineResult(_, _, _, _)
PipelineResult(file, u, k, m) ==
  IF k > Len(Plan(harness))
  THEN LET r == IF harness = "run"
                THEN write_results(file, u[2], m[1].time, m[2].time)
                ELSE write_results_optdiff(file, u[2], m)
       IN  IF r.raised THEN [file |-> file, raised |-> TRUE]
           ELSE [file |-> r.val, raised |-> FALSE]
  ELSE LET st == Plan(harness)[k]
           r == Call(st, script[u].outs[k])
       IN  IF r.raised THEN [file |-> file, raised |-> TRUE]
           ELSE IF st.op = "compile"
           THEN IF r.val THEN PipelineResult(file, u, k + 1, m)
                ELSE [file |-> file, raised |-> FALSE]
           ELSE IF r.val.time = None THEN [file |-> file, raised |-> FALSE]
           ELSE PipelineResult(file, u, k + 1, Append(m, r.val))

run_benchmark(file, u) ==
  IF AlreadyEvaluated(file, u[2]) THEN [file |-> file, raised |-> FALSE]
  ELSE IF harness = "run" /\ rust[u] = "none"
  THEN [file |-> file, raised |-> FALSE]
  ELSE IF ~inputExists THEN [file |-> file, raised |-> TRUE]
  ELSE PipelineResult(file, u, 1, <<>>)

\* The ledger an all-benchmarks pass leaves when it meets the sources in
\* the given order: it stops at the first exception.
RECURSIVE PassFrom(_, _)
PassFrom(file, order) ==
  IF order = <<>> THEN file
  ELSE LET r == run_benchmark(file, Head(order))
       IN  IF r.raised THEN r.file ELSE PassFrom(r.file, Tail(order))

\* The orders in which an all-benchmarks pass can meet the sources: the
\* categories shuffled, the sources of each category shuffled.
ShuffledOrders ==
  {p1 \o p2 : <<p1, p2>> \in
     UNION {Glob(ds[1]) \X Glob(ds[2]) : ds \in get_benchmark_dirs}}

Next ==
  \/ StartRun
  \/ NamedFound
  \/ NamedNotFound
  \/ GlobDir
  \/ AllDone
  \/ IterCall
  \/ IterGone
  \/ IterNextDir
  \/ CheckLedger
  \/ ResolveComparisons
  \/ Prepare
  \/ Compile
  \/ Measure
  \/ Record
  \/ Summary

Spec == Init /\ [][Next]_vars

\* Every reference source has a Rust file and a fixed fate.
InitFixed == InitWith(FixedScripts(harness), {"file"}, FALSE)
SpecFixed == InitFixed /\ [][Next]_vars

\* run.py measures fixed times, the same for every source.
InitTimes == InitWith(TimeScripts(harness), {"file"}, TRUE)
SpecTimes == InitTimes /\ [][Next]_vars

\* ----------------------------------------------------------------- claims
InCall == unit # NoUnit

\* The name starts a line of the file: the line is "<name>,...".
NameStartsALine(file, name) ==
  /\ file.exists
  /\ \E i \in 1..Len(file.lines) :
       /\ file.lines[i].text[1] = name
       /\ Len(file.lines[i].text) + Len(file.lines[i].num) > 1

\* The variants run_benchmark compiles (op = "compile") or measures.
Variants(h, op) ==
  LET sel == SelectSeq(Plan(h), LAMBDA st : st.op = op)
  IN  [i \in 1..Len(sel) |-> sel[i].v]

\* The result rows of the file: the lines with numeric fields.
Rows(file) == {i \in 1..Len(file.lines) : Len(file.lines[i].num) > 0}

\* C1: a run_benchmark call for a unit whose base name already starts a
\* line of the ledger compiles nothing, measures nothing, appends nothing
\* and leaves the ledger as it was, in run.py and in runOptDiff.py alike.
C1_Idempotent ==
  (InCall /\ NameStartsALine(ledgerAtCall, base_name)) =>
    /\ tried = <<>>
    /\ built = <<>>
    /\ meas = <<>>
    /\ ledger = ledgerAtCall
    /\ pc \notin {"resolve", "prepare", "pipeline", "record"}
    /\ status \in {"", "Skipped_duplicate"}

\* C1 witness: a unit has been skipped as a duplicate although the row of
\* its name is not the last line of the ledger.
C1_Witness ==
  /\ status = "Skipped_duplicate"
  /\ ~StartsWithName(Last(ledger.lines), base_name)

\* C2: the ledger never holds two result rows of the same benchmark name.
C2_OneRowPerName ==
  \A i, j \in Rows(ledger) :
    ledger.lines[i].text[1] = ledger.lines[j].text[1] => i = j

\* C2 witness: in a second run over a ledger that holds a row for "a", a
\* source named "a" has been skipped.
C2_Witness ==
  /\ run = 2
  /\ status = "Skipped_duplicate"
  /\ base_name = "a"
  /\ Rows(ledger) # {}

\* C3: in run.py, a unit with neither a Rust file nor a Rust project
\* directory causes no compile attempt, no measurement and no ledger row.
C3_NoCounterpartNoWork ==
  (harness = "run" /\ InCall /\ rust[unit] = "none") =>
    /\ tried = <<>>
    /\ meas = <<>>
    /\ ledger = ledgerAtCall
    /\ pc \notin {"prepare", "pipeline", "record"}

\* C3 witness: a unit has been skipped for want of a counterpart.
C3_Witness == status = "Skipped_no_counterpart" /\ rust[unit] = "none"

\* C4: the ledger changes in a call only by one row for the unit, and only
\* if in that call every variant compiled and every variant's measurement
\* returned a value; a call that ends in a failed compile or a failed
\* measurement leaves the ledger file exactly as it was.
C4_RowOnlyAfterFullSuccess ==
  /\ (InCall /\ ledger # ledgerAtCall) =>
       /\ status = "Recorded"
       /\ built = Variants(harness, "compile")
       /\ [i \in 1..Len(meas) |-> meas[i].v] = Variants(harness, "measure")
       /\ \A i \in 1..Len(meas) : meas[i].time # None
       /\ Last(ledger.lines).text = <<base_name>>
       /\ Len(ledger.lines) =
            Len(ledgerAtCall.lines) + (IF ledgerAtCall.exists THEN 1 ELSE 2)
  /\ status \in {"Failed_compile", "Failed_measure"} => ledger = ledgerAtCall

\* C4 witness: the reference compiled and was measured, the last
\* measurement failed, and no ledger file has been created.
C4_Witness ==
  /\ status = "Failed_measure"
  /\ Len(meas) = Len(Variants(harness, "measure")) - 1
  /\ ~ledger.exists

\* C5 (as claimed): no exception comes out of a measurement function.
C5_MeasurementNeverRaises ==
  raisedIn \notin {"run_c_benchmark", "run_rust_benchmark",
                   "run_benchmark_with_perf"}

\* C6 (as claimed): an all-benchmarks run of run.py whose input file exists
\* is never ended by an exception, however its units end.
C6_FailureIsolation ==
  (harness = "run" /\ run >= 1 /\ ~Named /\ inputExists) => pc # "aborted"

\* C7 (as claimed): with the input file missing no unit is processed and
\* the run does not complete normally.
C7_MissingInputFailsFast ==
  (run >= 1 /\ ~inputExists) => (calls = 0 /\ pc # "done")

\* The benchmark names that have a result row in the file.
RecordedNames(file) == {file.lines[i].text[1] : i \in Rows(file)}

\* An all-benchmarks pass of run.py has ended.
PassEnded == harness = "run" /\ run >= 1 /\ ~Named /\ pc \in {"done", "aborted"}

\* The functional form of run_benchmark agrees with the steps: the ledger
\* a pass ends with is the one PassFrom gives for some shuffle.
PassFromAgrees ==
  PassEnded =>
    ledger \in {PassFrom(ledgerAtRun, o) : o \in ShuffledOrders}

\* The measured times behind the row a run.py call has just written.
c_time == meas[1].time
rust_time == meas[2].time
Written == harness = "run" /\ status = "Recorded"

\* n is the integer nearest to a/b (b > 0).
Nearest(n, a, b) == 2 * (IF n * b >= a THEN n * b - a ELSE a - n * b) <= b

\* C8 (as claimed): the speedup field of a written row is c_time/rust_time
\* to 3 decimal places and both time fields are strictly positive.
C8_SpeedupThreePlaces ==
  Written =>
    LET row == Last(ledger.lines)
    IN  /\ row.num[3] * 10 = RoundHalfEven(c_time * 1000, rust_time)
        /\ row.num[1] > 0
        /\ row.num[2] > 0

\* C8 (amended): the speedup field of a written row is c_time/rust_time of
\* the measured (unrounded) times rounded to 2 decimal places; each time
\* field is the measured time rounded to 3 decimal places and is not
\* negative (0.000 for less than half a millisecond); the measured
\* comparison time of a written row is strictly positive.
C8_SpeedupTwoPlaces ==
  Written =>
    LET row == Last(ledger.lines)
    IN  /\ row.text = <<base_name>>
        /\ Len(row.num) = 3
        /\ rust_time > 0
        /\ c_time >= 0
        /\ Nearest(row.num[3], c_time * 100, rust_time)
        /\ Nearest(row.num[1], c_time * 1000, TicksPerSecond)
        /\ Nearest(row.num[2], rust_time * 1000, TicksPerSecond)
        /\ row.num[1] >= 0
        /\ row.num[2] >= 0

\* C8 witness: a row has been written for measured times of 2 and 3 ticks:
\* the time fields read 0.001 and 0.001 and the speedup 0.67.
C8_Witness ==
  /\ Written
  /\ c_time = 2
  /\ rust_time = 3
  /\ Last(ledger.lines).num = <<1, 1, 67>>

\* C9 (as claimed): with the outcome of every unit fixed, the set of names
\* an all-benchmarks pass of run.py leaves in the ledger is the same for
\* every shuffle of the categories and of the sources within a category,
\* and a second pass adds no row for a name already recorded.
C9_OrderIndependent ==
  PassEnded =>
    \A o \in ShuffledOrders :
      /\ RecordedNames(PassFrom(ledgerAtRun, o)) = RecordedNames(ledger)
      /\ LET again == PassFrom(ledger, o)
         IN  \A i \in Rows(again) :
               i > Len(ledger.lines) =>
                 again.lines[i].text[1] \notin RecordedNames(ledger)

\* C10: a named benchmark whose source is in no category is logged as not
\* found; run_benchmark is not called, the ledger is neither changed nor
\* created, the summary count is 0 and the run ends normally.
C10_NamedNotFound ==
  (run >= 1 /\ Named /\ \A d \in Range(BenchmarkDirs) : <<d, benchmark>> \notin cfiles) =>
    /\ pc \in {"named", "summary", "done"}
    /\ calls = 0
    /\ total_benchmarks = 0
    /\ ledger = ledgerAtRun
    /\ pc \in {"summary", "done"} => notFound
    /\ pc = "done" => summary = 0

\* C10 witness: such a run has ended normally.
C10_Witness ==
  /\ pc = "done"
  /\ benchmark = MissingName
  /\ notFound
  /\ summary = 0

\* s is an initial part of t.
IsPrefix(s, t) ==
  /\ Len(s) <= Len(t)
  /\ \A i \in 1..Len(s) : s[i] = t[i]

\* C11: the ledger is append-only: no step of either harness (a skip, a
\* failed unit, a record, the start of a further run) removes the file or
\* changes or reorders a line it holds; what it held before the step is an
\* initial part of what it holds after.
C11_AppendOnly ==
  [][/\ ledger.exists => ledger'.exists
     /\ IsPrefix(ledger.lines, ledger'.lines)]_vars

\* C11 witness: a second run has recorded a row behind the header and rows
\* that an earlier run left.
C11_Witness ==
  /\ run = 2
  /\ status = "Recorded"
  /\ Len(ledgerAtRun.lines) >= 2
  /\ Len(ledger.lines) = Len(ledgerAtCall.lines) + 1
  /\ IsPrefix(ledgerAtRun.lines, ledger.lines)

\* The header line of the harness's schema.
Header(h) == IF h = "run" THEN HeaderRun ELSE HeaderOptDiff

AtMeasure == pc = "pipeline" /\ Plan(harness)[step].op = "measure"

\* The variants measured so far in the call, in the order measured.
Measured == [i \in 1..Len(meas) |-> meas[i].v]

\* C13 as stated: in both harnesses no measurement starts, and none has
\* been made, before the reference and every comparison variant compiled.
C13_CompileAllFirst ==
  (InCall /\ (AtMeasure \/ meas # <<>>)) =>
    built = Variants(harness, "compile")

\* C13: a variant is measured only after it compiled; the variants are
\* compiled and measured in the fixed order, reference first, each at most
\* once in a call.  In run.py no measurement starts before both programs
\* compiled; in runOptDiff.py each variant is measured right after its own
\* compilation and before the next variant is compiled.
C13_StageOrder ==
  InCall =>
    /\ IsPrefix(built, Variants(harness, "compile"))
    /\ IsPrefix(Measured, Variants(harness, "measure"))
    /\ Range(Measured) \subseteq Range(built)
    /\ AtMeasure => Plan(harness)[step].v \in Range(built)
    /\ harness = "run" =>
         ((AtMeasure \/ meas # <<>>) => built = Variants("run", "compile"))
    /\ harness = "optdiff" =>
         /\ Len(built) - Len(meas) \in {0, 1}
         /\ pc = "pipeline" =>
              Len(built) = Len(meas) + (IF AtMeasure THEN 1 ELSE 0)
         /\ AtMeasure => Plan(harness)[step].v = Last(built)

\* C13 witness: runOptDiff.py has measured the -O2 program and is about to
\* compile the -O3 one.
C13_Witness ==
  /\ harness = "optdiff"
  /\ pc = "pipeline"
  /\ Plan(harness)[step] = Step("compile", "O3")
  /\ built = <<"O2">>
  /\ Measured = <<"O2">>

\* The integer a sequence of digit groups writes: <<1, 234, 567>> is
\* 1234567.
RECURSIVE GroupsValue(_)
GroupsValue(groups) ==
  IF groups = <<>> THEN 0
  ELSE GroupsValue(SubSeq(groups, 1, Len(groups) - 1)) * 1000 + Last(groups)

\* C14: every measurement run_benchmark_with_perf returned holds the time
\* perf printed before " seconds time elapsed" and the whole cycle count
\* perf printed before "cycles", however many digit groups it has; and a
\* unit whose measurement failed has added no row.
C14_PerfParsing ==
  (harness = "optdiff" /\ InCall) =>
    /\ \A i \in 1..Len(meas) :
         /\ meas[i].time = meas[i].stderr.time
         /\ meas[i].cycles = GroupsValue(meas[i].stderr.groups)
    /\ status = "Failed_measure" => ledger = ledgerAtCall

\* The number of white-space separated tokens of the input file.
TokenCount ==
  Cardinality({i \in 1..Len(input_data) :
                 input_data[i] \notin {" ", "\n", "\t"}})

\* The text ref with every statement "int n = 97;" turned into
\* "int n = <size>;" and every other line kept.
Resized(ref, size) ==
  [i \in 1..Len(ref) |->
     IF ref[i].text = "int n = ;" /\ ref[i].n = 97
     THEN [text |-> "int n = ;", n |-> size]
     ELSE ref[i]]

\* C15: when the input file can be read, the step of run_benchmark that
\* prepares the source neither fails nor skips the unit, and the text it
\* hands to the compiler (piped by run.py, written to <name>_temp.c by
\* runOptDiff.py) is the reference source with "int n = 97;" replaced by
\* "int n = L;", L the number of tokens of the input; a source without
\* that statement is handed over as it is.
C15_SizeSubstitution ==
  [][(pc = "prepare" /\ inputExists) =>
       /\ pc' = "pipeline"
       /\ status' = status
       /\ c_source' = Resized(content[unit], TokenCount)
       /\ (\A i \in 1..Len(content[unit]) :
             content[unit][i] # [text |-> "int n = ;", n |-> 97])
           => c_source' = content[unit]
       /\ harness = "optdiff" =>
            /\ temp_c_file \in cfiles'
            /\ content'[temp_c_file] = c_source']_vars

\* C15 witness: runOptDiff.py has written a temporary source that holds
\* "int n = 3;" where the reference source holds "int n = 97;".
C15_Witness ==
  /\ harness = "optdiff"
  /\ pc = "pipeline"
  /\ step = 1
  /\ TokenCount = 3
  /\ \E i \in 1..Len(c_source) :
       /\ content[unit][i] = SizeDecl(DefaultSize)
       /\ c_source[i] = SizeDecl(3)
  /\ content[temp_c_file] = c_source

\* C16: a unit is skipped as already evaluated only if the ledger held a
\* result row of its base name when the call started; neither the header
\* line nor the row of another name makes the pre-check fire.
C16_SkipOnlyIfRecorded ==
  status = "Skipped_duplicate" => base_name \in RecordedNames(ledgerAtCall)

\* The ways a run_benchmark call returns.
Ended ==
  {"Recorded", "Skipped_duplicate", "Skipped_no_counterpart",
   "Failed_compile", "Failed_measure"}

\* C17: in a named run whose source is in at least one category, the only
\* run_benchmark call is for the source in the first category of this
\* run's shuffled order that holds it; once the call has returned no other
\* category is tried, the counter is 1 and the summary logs 1.
C17_NamedRunsFirstHolder ==
  (run >= 1 /\ Named
     /\ \E d \in Range(BenchmarkDirs) : <<d, benchmark>> \in cfiles) =>
    /\ calls <= 1
    /\ pc \notin {"glob", "iter"}
    /\ ~notFound
    /\ InCall =>
         /\ calls = 1
         /\ base_name = benchmark
         /\ \E i \in 1..Len(dirs) :
              /\ unit[1] = dirs[i]
              /\ \A j \in 1..(i - 1) : <<dirs[j], benchmark>> \notin cfiles
    /\ pc \in {"summary", "done"} =>
         /\ InCall
         /\ status \in Ended
         /\ total_benchmarks = 1
    /\ pc = "done" => summary = 1

\* C17 witness: a named run for "a", which both categories hold, has ended
\* after one call, for the source of the category the shuffle put first.
C17_Witness ==
  /\ pc = "done"
  /\ benchmark = "a"
  /\ dirs = <<Perf, Alg>>
  /\ unit = <<Perf, "a">>
  /\ calls = 1
  /\ summary = 1

\* C18: in runOptDiff.py, whenever no run_benchmark call is under way
\* (none was made yet, or the last one finished, however it finished) no
\* <name>_temp.c is on disk: the tree holds the reference sources only.
C18_TempRemoved ==
  (harness = "optdiff"
     /\ pc \in {"idle", "named", "glob", "iter", "summary", "done", "aborted"})
    => cfiles = CFiles0

====
